---- MODULE Spec2Model ----
(***************************************************************************)
(* terrenghenter: the image-size calculator, the bounding-box constructor  *)
(* and the fetch client of src/terrenghenter/api.py, and the fetch and     *)
(* fetch-bbox commands of src/terrenghenter/cli.py.                        *)
(*                                                                         *)
(* Python's float is IEEE-754 binary64.  Its values are modelled exactly:  *)
(* a finite double is [neg, m, e] with value (-1)^neg * m * 2^e, where m   *)
(* is zero or has exactly MantBits bits.  Significands do not fit TLC's    *)
(* 32-bit integers, so naturals are little-endian arrays of NumLimbs limbs *)
(* in base 2^LimbBits.  Every operation rounds to nearest, ties to even,   *)
(* as the hardware does.  Overflow, subnormals, NaN and infinities are     *)
(* outside the magnitudes the model draws.                                 *)
(***************************************************************************)
EXTENDS Integers, Sequences, FiniteSets, TLC

\* ------------------------------------------------------------------------
\* Naturals wider than a machine word
\* ------------------------------------------------------------------------
LimbBits == 14
NumLimbs == 9
MantBits == 53
Base == 2^LimbBits
Limbs == 1..NumLimbs

Abs(n) == IF n < 0 THEN -n ELSE n
MaxOf(S) == CHOOSE x \in S : \A y \in S : y <= x

\* TLC keeps [i \in S |-> e] unevaluated and computes f[i] anew at every use;
\* a tuple constructor computes each limb once
Pack(f) == <<f[1], f[2], f[3], f[4], f[5], f[6], f[7], f[8], f[9]>>

BigZero == Pack([i \in Limbs |-> 0])
BigOne == Pack([i \in Limbs |-> IF i = 1 THEN 1 ELSE 0])

\* n < 2^31
FromNat(n) ==
    Pack([i \in Limbs |-> IF i = 1 THEN n % Base
                     ELSE IF i = 2 THEN (n \div Base) % Base
                     ELSE IF i = 3 THEN n \div (Base * Base)
                     ELSE 0])

\* A < 2^31
ToNat(A) == A[1] + Base * A[2] + Base * Base * A[3]

Limb(A, j) == IF j \in Limbs THEN A[j] ELSE 0

BigCmp(A, B) ==
    LET D == {i \in Limbs : A[i] # B[i]}
    IN  IF D = {} THEN 0
        ELSE IF A[MaxOf(D)] > B[MaxOf(D)] THEN 1 ELSE -1

BigAdd(A, B) ==
    LET c[i \in Limbs] == IF i = 1 THEN 0
                          ELSE (A[i-1] + B[i-1] + c[i-1]) \div Base
    IN  Pack([i \in Limbs |-> (A[i] + B[i] + c[i]) % Base])

\* A >= B
BigSub(A, B) ==
    LET b[i \in Limbs] == IF i = 1 THEN 0
                          ELSE IF A[i-1] - B[i-1] - b[i-1] < 0 THEN 1 ELSE 0
    IN  Pack([i \in Limbs |-> (A[i] - B[i] - b[i] + Base) % Base])

ShiftLeft(A, k) ==
    LET q == k \div LimbBits
        r == k % LimbBits
    IN  Pack([i \in Limbs |-> ((Limb(A, i - q) * 2^r) % Base)
                         + (Limb(A, i - q - 1) \div 2^(LimbBits - r))])

ShiftRight(A, k) ==
    LET q == k \div LimbBits
        r == k % LimbBits
    IN  Pack([i \in Limbs |-> (Limb(A, i + q) \div 2^r)
                         + (Limb(A, i + q + 1) % 2^r) * 2^(LimbBits - r)])

LowBitsZero(A, k) == ShiftLeft(ShiftRight(A, k), k) = A

BitLen(A) ==
    LET D == {i \in Limbs : A[i] # 0}
    IN  IF D = {} THEN 0
        ELSE LET t == MaxOf(D)
             IN  LimbBits * (t - 1)
                 + (CHOOSE n \in 1..LimbBits : 2^(n-1) <= A[t] /\ A[t] < 2^n)

Bit(A, k) == (Limb(A, (k \div LimbBits) + 1) \div 2^(k % LimbBits)) % 2

\* A, B < 2^56 (four limbs each), so that a column sum stays below 2^31
BigMul(A, B) ==
    LET T(i, k) == IF k + 1 - i \in 1..4 THEN A[i] * B[k + 1 - i] ELSE 0
        S(k) == T(1, k) + T(2, k) + T(3, k) + T(4, k)
        c[k \in Limbs] == IF k = 1 THEN 0 ELSE (S(k-1) + c[k-1]) \div Base
    IN  Pack([k \in Limbs |-> (S(k) + c[k]) % Base])

\* ------------------------------------------------------------------------
\* binary64
\* ------------------------------------------------------------------------
FZero == [neg |-> FALSE, m |-> BigZero, e |-> 0]

IsZero(x) == x.m = BigZero

\* the double nearest to (-1)^neg * (M + f) * 2^e, where 0 <= f < 1 and
\* sticky says f > 0; ties go to the even significand
Round(neg, M, e, sticky) ==
    LET L == BitLen(M)
    IN  IF L = 0 THEN FZero
        ELSE IF L <= MantBits
        THEN [neg |-> neg, m |-> ShiftLeft(M, MantBits - L), e |-> e - (MantBits - L)]
        ELSE LET s == L - MantBits
                 K == ShiftRight(M, s)
                 rest == sticky \/ ~LowBitsZero(M, s - 1)
                 up == Bit(M, s - 1) = 1 /\ (rest \/ Bit(K, 0) = 1)
                 K2 == IF up THEN BigAdd(K, BigOne) ELSE K
             IN  IF BitLen(K2) > MantBits
                 THEN [neg |-> neg, m |-> ShiftRight(K2, 1), e |-> e + s + 1]
                 ELSE [neg |-> neg, m |-> K2, e |-> e + s]

FromInt(n) == Round(n < 0, FromNat(Abs(n)), 0, FALSE)

FNeg(x) == IF IsZero(x) THEN x ELSE [x EXCEPT !.neg = ~x.neg]

FAdd(a, b) ==
    IF IsZero(a) THEN b
    ELSE IF IsZero(b) THEN a
    ELSE LET hi == IF a.e >= b.e THEN a ELSE b
             lo == IF a.e >= b.e THEN b ELSE a
             d == hi.e - lo.e
         IN  IF d > 64 THEN hi
             ELSE LET H == ShiftLeft(hi.m, d)
                      c == BigCmp(H, lo.m)
                  IN  IF hi.neg = lo.neg
                      THEN Round(hi.neg, BigAdd(H, lo.m), lo.e, FALSE)
                      ELSE IF c = 0 THEN FZero
                      ELSE IF c > 0 THEN Round(hi.neg, BigSub(H, lo.m), lo.e, FALSE)
                      ELSE Round(lo.neg, BigSub(lo.m, H), lo.e, FALSE)

FSub(a, b) == FAdd(a, FNeg(b))

FMul(a, b) ==
    IF IsZero(a) \/ IsZero(b) THEN FZero
    ELSE Round(a.neg # b.neg, BigMul(a.m, b.m), a.e + b.e, FALSE)

\* restoring division: n more quotient bits of R / D, R < D, appended to Q.
\* TLC suspends operator arguments; reading Q2 at every step keeps the chain
\* of suspended shifts from growing with n.
RECURSIVE DivLoop(_, _, _, _)
DivLoop(R, D, Q, n) ==
    IF n = 0 THEN [q |-> Q, r |-> R]
    ELSE LET R2 == ShiftLeft(R, 1)
             Q2 == ShiftLeft(Q, 1)
         IN  IF Q2[1] % 2 = 0 /\ BigCmp(R2, D) >= 0
             THEN DivLoop(BigSub(R2, D), D, BigAdd(Q2, BigOne), n - 1)
             ELSE DivLoop(R2, D, Q2, n - 1)

\* a / b, b not zero: at least MantBits + 2 quotient bits and a sticky bit
FDiv(a, b) ==
    IF IsZero(a) THEN FZero
    ELSE LET ge == BigCmp(a.m, b.m) >= 0
             R0 == IF ge THEN BigSub(a.m, b.m) ELSE a.m
             Q0 == IF ge THEN BigOne ELSE BigZero
             qr == DivLoop(R0, b.m, Q0, MantBits + 2)
         IN  Round(a.neg # b.neg, qr.q, a.e - b.e - (MantBits + 2), qr.r # BigZero)

\* the decimal literal n / 10^k as float() parses it (correctly rounded)
Dec(n, k) == FDiv(FromInt(n), FromInt(10^k))

\* magnitude of x with the fraction dropped; |x| < 2^31
IntMag(x) ==
    IF IsZero(x) THEN 0
    ELSE IF x.e >= 0 THEN ToNat(ShiftLeft(x.m, x.e))
    ELSE ToNat(ShiftRight(x.m, -x.e))

HasFraction(x) == ~IsZero(x) /\ x.e < 0 /\ ~LowBitsZero(x.m, -x.e)

\* variant: math.floor in place of int()
PyIntFloor(x) == IF x.neg /\ HasFraction(x) THEN -IntMag(x) - 1 ELSE IF x.neg THEN -IntMag(x) ELSE IntMag(x)

\* int(x): truncation toward zero
PyInt(x) == IF x.neg THEN -IntMag(x) ELSE IntMag(x)

\* exact value of x - y as [neg, m, e], not rounded (exponents at most 64 apart)
ExactSub(x, y) ==
    LET lo == IF x.e <= y.e THEN x.e ELSE y.e
        X == ShiftLeft(x.m, x.e - lo)
        Y == ShiftLeft(y.m, y.e - lo)
        c == BigCmp(X, Y)
    IN  IF x.neg # y.neg
        THEN [neg |-> x.neg, m |-> BigAdd(X, Y), e |-> lo]
        ELSE IF c >= 0 THEN [neg |-> x.neg, m |-> BigSub(X, Y), e |-> lo]
        ELSE [neg |-> ~x.neg, m |-> BigSub(Y, X), e |-> lo]

\* |v| <= 2^k for an exact value v
MagAtMostPow2(v, k) ==
    \/ v.m = BigZero
    \/ BitLen(v.m) + v.e <= k
    \/ BitLen(v.m) + v.e = k + 1 /\ LowBitsZero(v.m, BitLen(v.m) - 1)

\* exponent of the unit in the last place of x
UlpExp(x) == IF IsZero(x) THEN -1074 ELSE x.e

FTwo == FromInt(2)

\* ------------------------------------------------------------------------
\* api.py: BoundingBox
\* ------------------------------------------------------------------------
MAX_IMAGE_SIZE == 15000

BoundingBox(min_x, min_y, max_x, max_y) ==
    [min_x |-> min_x, min_y |-> min_y, max_x |-> max_x, max_y |-> max_y]

width(box) == FSub(box.max_x, box.min_x)
height(box) == FSub(box.max_y, box.min_y)

\* variant: the size itself taken as the offset
whole(size_m) == size_m

\* the offset from the centre to an edge
half(size_m) == FDiv(size_m, FTwo)

\* c is what transformer.transform(center_lon, center_lat) returned
from_center_and_size(c, width_m, height_m) ==
    BoundingBox(FSub(c.x, half(width_m)), FSub(c.y, half(height_m)),
                FAdd(c.x, half(width_m)), FAdd(c.y, half(height_m)))

\* sw and ne are what the two calls of transformer.transform returned
from_wgs84(sw, ne) == BoundingBox(sw.x, sw.y, ne.x, ne.y)

\* ------------------------------------------------------------------------
\* api.py: HoydedataClient._calculate_image_size
\* ------------------------------------------------------------------------
Larger(a, b) == IF a >= b THEN a ELSE b

\* int(bbox.width / self.resolution)
raw_size(extent, resolution) == PyInt(FDiv(extent, resolution))

exceeds_limit(w, h) == w > MAX_IMAGE_SIZE \/ h > MAX_IMAGE_SIZE

\* MAX_IMAGE_SIZE / max(width, height)
scale_for(w, h) == FDiv(FromInt(MAX_IMAGE_SIZE), FromInt(Larger(w, h)))

\* int(width * scale)
scaled(n, scale) == PyInt(FMul(FromInt(n), scale))

clamp(w, h) ==
    IF exceeds_limit(w, h)
    THEN <<scaled(w, scale_for(w, h)), scaled(h, scale_for(w, h))>>
    ELSE <<w, h>>

calculate_image_size(box, resolution) ==
    clamp(raw_size(width(box), resolution), raw_size(height(box), resolution))

\* ------------------------------------------------------------------------
\* Strings are sequences of characters, so that lower() and "in" are computed
\* ------------------------------------------------------------------------
UpperToLower ==
    [c \in {"A", "E", "F", "G", "I", "M", "T"} |->
        CASE c = "A" -> "a" [] c = "E" -> "e" [] c = "F" -> "f" [] c = "G" -> "g"
          [] c = "I" -> "i" [] c = "M" -> "m" [] c = "T" -> "t"]

\* str.lower()
lower(str) ==
    [i \in 1..Len(str) |-> IF str[i] \in DOMAIN UpperToLower
                           THEN UpperToLower[str[i]] ELSE str[i]]

\* sub in str
contains(str, sub) ==
    \E i \in 1..(Len(str) - Len(sub) + 1) : SubSeq(str, i, i + Len(sub) - 1) = sub

TIFF == <<"t", "i", "f", "f">>
IMAGE == <<"i", "m", "a", "g", "e">>

\* ------------------------------------------------------------------------
\* The HTTP response, as httpx hands it to fetch_dtm
\* ------------------------------------------------------------------------
CONTENT_TYPE == "content-type"

\* response.headers.get(name, default)
header_get(headers, name, default) ==
    IF name \in DOMAIN headers THEN headers[name] ELSE default

\* variant: only 4xx and 5xx count as failures
below_400(status) == status < 400

\* Response.is_success, which raise_for_status tests
is_success(status) == 200 <= status /\ status <= 299

\* variant: a response without a content type is let through
tiff_or_untyped(content_type) ==
    \/ content_type = <<>>
    \/ contains(lower(content_type), TIFF)
    \/ contains(lower(content_type), IMAGE)

\* api.py:133 negated: the content type passes the check
looks_like_tiff(content_type) ==
    contains(lower(content_type), TIFF) \/ contains(lower(content_type), IMAGE)

\* ------------------------------------------------------------------------
\* The file system under the working directory.  A path is the sequence of
\* its components; fs maps every path of interest to a node.
\* ------------------------------------------------------------------------
Absent == [kind |-> "absent", data |-> <<>>]
Dir == [kind |-> "dir", data |-> <<>>]
File(data) == [kind |-> "file", data |-> data]

\* Path.parent
parent(path) == SubSeq(path, 1, Len(path) - 1)

\* the directory d and every directory above it, below the working directory
Ancestors(d) == {SubSeq(d, 1, k) : k \in 1..Len(d)}

\* Path.mkdir(parents=True, exist_ok=True): the outcomes the file system can
\* produce.  A file in the way raises; otherwise any of the os.mkdir calls
\* may be refused, after the directories above it were made.
mkdir_parents(fs, d) ==
    LET missing == {q \in Ancestors(d) : fs[q].kind = "absent"}
        made(n) == [q \in DOMAIN fs |->
                      IF q \in missing /\ Len(q) <= n THEN Dir ELSE fs[q]]
    IN  IF \E q \in Ancestors(d) : fs[q].kind = "file"
        THEN {[ok |-> FALSE, fs |-> fs]}
        ELSE {[ok |-> TRUE, fs |-> made(Len(d))]}
             \cup {[ok |-> FALSE, fs |-> made(Len(q) - 1)] : q \in missing}

\* variant: open(mode='ab')
appended(old, data) == old \o data

\* what open(mode='wb') followed by a complete write leaves in the file
written(old, data) == data

\* Path.write_bytes(data): open(mode='wb') truncates, then the bytes are
\* written and the file is closed.  The open may be refused (the file is
\* untouched); the write may fail after any proper prefix.
write_bytes(fs, path, data) ==
    IF fs[path].kind = "dir" \/ (Len(path) > 1 /\ fs[parent(path)].kind # "dir")
    THEN {[ok |-> FALSE, fs |-> fs]}
    ELSE {[ok |-> TRUE, fs |-> [fs EXCEPT ![path] = File(written(fs[path].data, data))]]}
         \cup {[ok |-> FALSE, fs |-> fs]}
         \cup {[ok |-> FALSE, fs |-> [fs EXCEPT ![path] = File(SubSeq(data, 1, k))]]
                 : k \in 0..(Len(data) - 1)}

\* ------------------------------------------------------------------------
\* State
\* ------------------------------------------------------------------------
VARIABLES
    pc,              \* where the command (or the function under study) stands
    cmd,             \* "fetch" or "fetch_bbox"
    args,            \* the command's options
    geodesy,         \* the pyproj transformer: geographic point -> projected point
    transformCalls,  \* calls of transformer.transform so far
    center,          \* the transformed centre (fetch)
    bbox,            \* the BoundingBox
    size,            \* (width, height) in pixels
    client,          \* HoydedataClient: resolution and the httpx client's state
    fs,              \* the file system
    fs0,             \* the file system when the command started
    response,        \* the HTTP response received
    err,             \* the kind of the exception raised, or "none"
    ret,             \* the path fetch_dtm returned, or the empty path
    requests,        \* HTTP requests sent
    writes           \* calls of write_bytes on the destination

vars == <<pc, cmd, args, geodesy, transformCalls, center, bbox, size, client,
          fs, fs0, response, err, ret, requests, writes>>

\* ------------------------------------------------------------------------
\* Bounds and inputs
\* ------------------------------------------------------------------------
MaxBody == 2
MaxAttempts == 2
MaxRes == 2

Point(x, y) == [x |-> x, y |-> y]
Geo(lon, lat) == [lon |-> lon, lat |-> lat]

NoPoint == Point(FZero, FZero)
NoBox == BoundingBox(FZero, FZero, FZero, FZero)
NoSize == <<>>
NoPath == <<>>
NoClient == [state |-> "none", resolution |-> FZero]
NoResponse == [status |-> 0, headers |-> <<>>, body |-> <<>>]

\* response bodies of 0..MaxBody bytes
Bodies == {[i \in 1..n |-> i] : n \in 0..MaxBody}
OldData == <<9, 9, 9>>

Statuses == {200, 302, 500}
ContentTypes ==
    {<<"i", "m", "a", "g", "e", "/", "t", "i", "f", "f">>,
     <<"I", "M", "A", "G", "E", "/", "T", "I", "F", "F">>,
     <<"t", "e", "x", "t", "/", "h", "t", "m", "l">>,
     <<"a", "p", "p", "l", "i", "c", "a", "t", "i", "o", "n", "/", "j", "s", "o", "n">>}
HeaderSets == {<<>>} \cup {[h \in {CONTENT_TYPE} |-> t] : t \in ContentTypes}
Responses ==
    {[status |-> st, headers |-> h, body |-> b] :
        st \in Statuses, h \in HeaderSets, b \in Bodies}

\* -o terrain.tif (the default) and -o out/dtm/area.tif
OutputPaths == {<<"terrain.tif">>, <<"out", "dtm", "area.tif">>}
AllPaths == UNION {Ancestors(o) : o \in OutputPaths}

\* a file system the command can start in: what exists lies in directories,
\* and only the destination's own path is of interest
FileSystems(output) ==
    {f \in [AllPaths -> {Absent, Dir, File(OldData)}] :
        /\ \A q \in AllPaths : q \notin Ancestors(output) => f[q] = Absent
        /\ \A q \in AllPaths : f[q] # Absent =>
              \A a \in Ancestors(parent(q)) : f[a] = Dir}

\* geographic points of the examples in cli.py
GeoCenter == Geo(Dec(106683, 4), Dec(599639, 4))
GeoSW == Geo(Dec(106, 1), Dec(599, 1))
GeoNE == Geo(Dec(108, 1), Dec(600, 1))

\* projected points (EPSG:25833) the transformer may return
ProjXs == {Dec(2620003, 1), Dec(2621001, 1), Dec(1005, 1)}
ProjYs == {Dec(66500007, 1), Dec(66500003, 1)}
ProjPoints == {Point(x, y) : x \in ProjXs, y \in ProjYs}
CmdProjPoints == {Point(Dec(2620003, 1), Dec(66500007, 1)),
                  Point(Dec(2621001, 1), Dec(66500003, 1))}

Args(c, w, h, r, o) ==
    [center |-> c, sw |-> GeoSW, ne |-> GeoNE, width |-> w, height |-> h,
     resolution |-> r, output |-> o]

\* 0.1, 0.5 and 1..MaxRes metres per pixel
Resolutions == {Dec(1, 1), Dec(5, 1)} \cup {FromInt(r) : r \in 1..MaxRes}
BoxSizesW == {FromInt(1000), Dec(1, 1), Dec(10003, 1), FromInt(300)}
BoxSizesH == {FromInt(1000), Dec(25, 1), Dec(1, 1)}

\* coordinates for the image-size calculator: 0, 0.5, 1.5, 10000, 16718, 20000
SizeMins == {FZero, Dec(15, 1)}
SizeMaxs == {Dec(n, 1) : n \in {0, 5, 15, 100000, 167180, 200000}}
SizeBoxes ==
    {BoundingBox(x0, FZero, x1, y1) : x0 \in SizeMins, x1 \in SizeMaxs, y1 \in SizeMaxs}

Idle ==
    /\ transformCalls = 0
    /\ center = NoPoint
    /\ size = NoSize
    /\ response = NoResponse
    /\ err = "none"
    /\ ret = NoPath
    /\ requests = 0
    /\ writes = 0

\* ------------------------------------------------------------------------
\* cli.py: the fetch and fetch-bbox commands
\* ------------------------------------------------------------------------
Init ==
    /\ pc = "start"
    /\ cmd \in {"fetch", "fetch_bbox"}
    /\ args \in {Args(GeoCenter, FromInt(1000), FromInt(1000), r, o) :
                   r \in {FromInt(1), FZero}, o \in OutputPaths}
    /\ geodesy \in [{GeoCenter, GeoSW, GeoNE} -> CmdProjPoints]
    /\ fs0 \in FileSystems(args.output)
    /\ fs = fs0
    /\ bbox = NoBox
    /\ client = NoClient
    /\ Idle

\* cli.py:31
BuildBoxFetch ==
    /\ pc = "start"
    /\ cmd = "fetch"
    /\ center' = geodesy[args.center]
    /\ transformCalls' = transformCalls + 1
    /\ bbox' = from_center_and_size(geodesy[args.center], args.width, args.height)
    /\ pc' = "boxed"
    /\ UNCHANGED <<cmd, args, geodesy, size, client, fs, fs0, response, err, ret,
                   requests, writes>>

\* cli.py:58
BuildBoxCorners ==
    /\ pc = "start"
    /\ cmd = "fetch_bbox"
    /\ transformCalls' = transformCalls + 2
    /\ bbox' = from_wgs84(geodesy[args.sw], geodesy[args.ne])
    /\ pc' = "boxed"
    /\ UNCHANGED <<cmd, args, geodesy, center, size, client, fs, fs0, response, err,
                   ret, requests, writes>>

\* HoydedataClient.__init__ and __enter__
new_client(resolution) == [state |-> "open", resolution |-> resolution]

\* variant: the client is closed only when the block ends normally
exit_when_clean(c, raised) == IF raised THEN c ELSE [c EXCEPT !.state = "closed"]

\* HoydedataClient.__exit__(*args): raised says whether the block raised
context_exit(c, raised) == [c EXCEPT !.state = "closed"]

\* variant: a transport error sends the request again
retry_transport(kind) == IF kind = "transport" THEN "entered" ELSE "raised"

\* where control goes when fetch_dtm raises: no handler in fetch_dtm or in
\* the commands, so out of the with block
on_error(kind) == "raised"

\* cli.py:37, cli.py:65: with HoydedataClient(resolution=resolution) as client
EnterClient ==
    /\ pc = "boxed"
    /\ client' = new_client(args.resolution)
    /\ pc' = "entered"
    /\ UNCHANGED <<cmd, args, geodesy, transformCalls, center, bbox, size, fs, fs0,
                   response, err, ret, requests, writes>>

\* api.py:115, 93: --resolution 0 makes the division raise ZeroDivisionError
\* before anything is sent
DivideByZero ==
    /\ pc = "entered"
    /\ IsZero(client.resolution)
    /\ err' = "zero_division"
    /\ pc' = on_error("zero_division")
    /\ UNCHANGED <<cmd, args, geodesy, transformCalls, center, bbox, size, client, fs,
                   fs0, response, ret, requests, writes>>

\* api.py:115-128: the size, the parameters and the GET, which either raises
\* a transport error or returns a response
SendRequest ==
    /\ pc = "entered"
    /\ ~IsZero(client.resolution)
    /\ requests < MaxAttempts
    /\ size' = calculate_image_size(bbox, client.resolution)
    /\ requests' = requests + 1
    /\ \/ /\ err' = "transport"
          /\ pc' = on_error("transport")
          /\ UNCHANGED response
       \/ /\ response' \in Responses
          /\ pc' = "responded"
          /\ UNCHANGED err
    /\ UNCHANGED <<cmd, args, geodesy, transformCalls, center, bbox, client, fs, fs0,
                   ret, writes>>

\* api.py:129
RaiseForStatus ==
    /\ pc = "responded"
    /\ IF is_success(response.status)
       THEN pc' = "status_ok" /\ UNCHANGED err
       ELSE err' = "http_status" /\ pc' = on_error("http_status")
    /\ UNCHANGED <<cmd, args, geodesy, transformCalls, center, bbox, size, client, fs,
                   fs0, response, ret, requests, writes>>

\* api.py:132-134
CheckContentType ==
    /\ pc = "status_ok"
    /\ IF looks_like_tiff(header_get(response.headers, CONTENT_TYPE, <<>>))
       THEN pc' = "validated" /\ UNCHANGED err
       ELSE err' = "validation" /\ pc' = on_error("validation")
    /\ UNCHANGED <<cmd, args, geodesy, transformCalls, center, bbox, size, client, fs,
                   fs0, response, ret, requests, writes>>

\* api.py:136-137
MakeParents ==
    /\ pc = "validated"
    /\ \E r \in mkdir_parents(fs, parent(args.output)) :
          /\ fs' = r.fs
          /\ IF r.ok
             THEN pc' = "dirs_ready" /\ UNCHANGED err
             ELSE err' = "filesystem" /\ pc' = on_error("filesystem")
    /\ UNCHANGED <<cmd, args, geodesy, transformCalls, center, bbox, size, client, fs0,
                   response, ret, requests, writes>>

\* api.py:138-140
WriteAndReturn ==
    /\ pc = "dirs_ready"
    /\ writes' = writes + 1
    /\ \E r \in write_bytes(fs, args.output, response.body) :
          /\ fs' = r.fs
          /\ IF r.ok
             THEN pc' = "returned" /\ ret' = args.output /\ UNCHANGED err
             ELSE err' = "filesystem" /\ pc' = on_error("filesystem") /\ UNCHANGED ret
    /\ UNCHANGED <<cmd, args, geodesy, transformCalls, center, bbox, size, client, fs0,
                   response, requests>>

\* leaving the with block, api.py:85-86; an exception then propagates out of
\* the command, a return goes on to cli.py:40
ExitClient ==
    /\ pc \in {"returned", "raised"}
    /\ client' = context_exit(client, pc = "raised")
    /\ pc' = IF pc = "raised" THEN "failed" ELSE "done"
    /\ UNCHANGED <<cmd, args, geodesy, transformCalls, center, bbox, size, fs, fs0,
                   response, err, ret, requests, writes>>

Next ==
    \/ BuildBoxFetch
    \/ BuildBoxCorners
    \/ EnterClient
    \/ DivideByZero
    \/ SendRequest
    \/ RaiseForStatus
    \/ CheckContentType
    \/ MakeParents
    \/ WriteAndReturn
    \/ ExitClient

Spec == Init /\ [][Next]_vars

\* ------------------------------------------------------------------------
\* BoundingBox.from_center_and_size on its own: centres and sizes drawn from
\* the sets above
\* ------------------------------------------------------------------------
InitBox ==
    /\ pc = "start"
    /\ cmd = "fetch"
    /\ args \in {Args(GeoCenter, w, h, FromInt(1), <<"terrain.tif">>) :
                   w \in BoxSizesW, h \in BoxSizesH}
    /\ geodesy \in [{GeoCenter} -> ProjPoints]
    /\ fs0 = [q \in AllPaths |-> Absent]
    /\ fs = fs0
    /\ bbox = NoBox
    /\ client = NoClient
    /\ Idle

NextBox == BuildBoxFetch

SpecBox == InitBox /\ [][NextBox]_vars

\* ------------------------------------------------------------------------
\* HoydedataClient._calculate_image_size on its own: boxes and resolutions
\* drawn from the sets above
\* ------------------------------------------------------------------------
InitSize ==
    /\ pc = "size_input"
    /\ cmd = "none"
    /\ args = Args(GeoCenter, FZero, FZero, FZero, <<"terrain.tif">>)
    /\ geodesy = [g \in {GeoCenter} |-> NoPoint]
    /\ fs0 = [q \in AllPaths |-> Absent]
    /\ fs = fs0
    /\ bbox \in SizeBoxes
    /\ client \in {new_client(r) : r \in Resolutions}
    /\ Idle

CalcImageSize ==
    /\ pc = "size_input"
    /\ size' = calculate_image_size(bbox, client.resolution)
    /\ pc' = "size_output"
    /\ UNCHANGED <<cmd, args, geodesy, transformCalls, center, bbox, client, fs, fs0,
                   response, err, ret, requests, writes>>

NextSize == CalcImageSize

SpecSize == InitSize /\ [][NextSize]_vars

\* ------------------------------------------------------------------------
\* Properties of the commands (Spec)
\* ------------------------------------------------------------------------
Destination == fs[args.output]
DestinationBefore == fs0[args.output]
ContentType == header_get(response.headers, CONTENT_TYPE, <<>>)
Received == response.status # 0
Failed == pc \in {"raised", "failed"}
Returned == pc \in {"returned", "done"}

\* content types that do not announce an image or a TIFF, the missing one included
NonImageTypes ==
    {<<>>,
     <<"t", "e", "x", "t", "/", "h", "t", "m", "l">>,
     <<"a", "p", "p", "l", "i", "c", "a", "t", "i", "o", "n", "/", "j", "s", "o", "n">>}

\* C1: once a response with a non-2xx status has been received, fetch_dtm goes
\* no further than raise_for_status: it fails with an HTTP-status error
\* whatever the content type is, nothing is written, and the destination is
\* as it was before the call (no file is created there).
C1_HttpStatusError ==
    (Received /\ response.status \notin 200..299) =>
        /\ pc \in {"responded", "raised", "failed"}
        /\ Failed => err = "http_status"
        /\ writes = 0
        /\ fs = fs0

\* C1 witness: a 500 with content type image/tiff has failed with the
\* HTTP-status error and the destination, absent before, is still absent
C1_Witness ==
    /\ pc = "failed"
    /\ response.status = 500
    /\ ContentType = <<"i", "m", "a", "g", "e", "/", "t", "i", "f", "f">>
    /\ err = "http_status"
    /\ DestinationBefore = Absent
    /\ Destination = Absent

\* C2: a 2xx response whose content type does not announce an image or a
\* TIFF (or that has no content type) makes fetch_dtm fail with the
\* validation error at the content-type check, and nothing is written.
C2_ContentTypeGuard ==
    (Received /\ response.status \in 200..299 /\ ContentType \in NonImageTypes) =>
        /\ pc \in {"responded", "status_ok", "raised", "failed"}
        /\ Failed => err = "validation"
        /\ writes = 0
        /\ fs = fs0

\* C2 witness: a 200 without a content-type header has failed validation
C2_Witness ==
    /\ pc = "failed"
    /\ response.status = 200
    /\ response.headers = <<>>
    /\ Len(response.body) > 0
    /\ err = "validation"
    /\ Destination = DestinationBefore

\* C3: when fetch_dtm has returned, the response was a 2xx with an image or
\* TIFF content type, every directory above the destination exists, the
\* destination is a file holding exactly the response body, and the value
\* returned is the destination path.
C3_SuccessfulFetch ==
    Returned =>
        /\ response.status \in 200..299
        /\ ContentType \notin NonImageTypes
        /\ \A d \in Ancestors(parent(args.output)) : fs[d] = Dir
        /\ Destination = File(response.body)
        /\ ret = args.output
        /\ err = "none"

\* C3 witness: out/ did not exist, and out/dtm/area.tif now holds the body
C3_Witness ==
    /\ pc = "done"
    /\ args.output = <<"out", "dtm", "area.tif">>
    /\ fs0[<<"out">>] = Absent
    /\ fs[<<"out", "dtm">>] = Dir
    /\ Len(response.body) = MaxBody
    /\ Destination = File(response.body)

\* C4: after a failed fetch the destination does not exist, or is what it
\* was before the call, or holds the complete response body.
C4_NoPartialFile ==
    Failed =>
        \/ Destination = Absent
        \/ Destination = DestinationBefore
        \/ Received /\ Destination = File(response.body)

\* C5: when the command has ended, normally or by an exception of any kind,
\* the HTTP client that was created has been closed.
C5_ClientClosed ==
    pc \in {"done", "failed"} => client.state = "closed"

\* C5 witness: the command ended by a file-system error and the client is closed
C5_Witness ==
    /\ pc = "failed"
    /\ err = "filesystem"
    /\ writes = 1
    /\ client.state = "closed"

\* C8: a command sends at most one request and calls write_bytes at most
\* once, the write only after the response has been received and validated;
\* once an error has been raised, no request and no write follows.
C8_OneRequestOneWrite ==
    /\ [](/\ requests <= 1
          /\ writes <= 1
          /\ writes = 1 => (requests = 1 /\ Received /\ pc \notin {"responded", "status_ok", "validated"}))
    /\ [][err # "none" => (requests' = requests /\ writes' = writes)]_vars

\* C8 witness: the request failed in transport and the command ended with
\* that one request sent
C8_Witness ==
    /\ pc = "failed"
    /\ err = "transport"
    /\ requests = 1
    /\ writes = 0

\* ------------------------------------------------------------------------
\* Properties of from_center_and_size (SpecBox)
\* ------------------------------------------------------------------------
\* the larger exponent of the unit in the last place of two corners
CornerUlp(a, b) == Larger(UlpExp(a), UlpExp(b))

Twice(x) == IF IsZero(x) THEN x ELSE [x EXCEPT !.e = x.e + 1]

\* min + max - 2 * c, exactly
MidpointError(lo, hi, c) == ExactSub(ExactSub(hi, FNeg(lo)), Twice(c))

\* C9 as stated: the centre is transformed once, the box is exactly
\* width_m by height_m and its midpoint is exactly the transformed centre.
C9_ExactBox ==
    pc = "boxed" =>
        /\ transformCalls = 1
        /\ width(bbox) = args.width
        /\ height(bbox) = args.height
        /\ FDiv(FAdd(bbox.min_x, bbox.max_x), FTwo) = center.x
        /\ FDiv(FAdd(bbox.min_y, bbox.max_y), FTwo) = center.y

\* the corners min and max are exactly c - size_m / 2 and c + size_m / 2
ExactCorners(lo, hi, c, size_m) ==
    /\ ExactSub(ExactSub(hi, c), half(size_m)).m = BigZero
    /\ ExactSub(ExactSub(c, lo), half(size_m)).m = BigZero

\* C9 amended: the centre is transformed once; the box's width and height
\* equal width_m and height_m to within two units in the last place of the
\* larger corner coordinate, and the exact midpoint of the corners is within
\* half such a unit of the transformed centre; where the corners were
\* computed without rounding, width, height and midpoint are exact.
C9_BoxWithinRounding ==
    pc = "boxed" =>
        /\ ExactCorners(bbox.min_x, bbox.max_x, center.x, args.width) =>
              /\ width(bbox) = args.width
              /\ FDiv(FAdd(bbox.min_x, bbox.max_x), FTwo) = center.x
        /\ ExactCorners(bbox.min_y, bbox.max_y, center.y, args.height) =>
              /\ height(bbox) = args.height
              /\ FDiv(FAdd(bbox.min_y, bbox.max_y), FTwo) = center.y
        /\ transformCalls = 1
        /\ center = geodesy[args.center]
        /\ MagAtMostPow2(ExactSub(width(bbox), args.width),
                         CornerUlp(bbox.min_x, bbox.max_x) + 1)
        /\ MagAtMostPow2(ExactSub(height(bbox), args.height),
                         CornerUlp(bbox.min_y, bbox.max_y) + 1)
        /\ MagAtMostPow2(MidpointError(bbox.min_x, bbox.max_x, center.x),
                         CornerUlp(bbox.min_x, bbox.max_x))
        /\ MagAtMostPow2(MidpointError(bbox.min_y, bbox.max_y, center.y),
                         CornerUlp(bbox.min_y, bbox.max_y))

\* C9 witness: a box has been built whose width is not exactly width_m
C9_Witness ==
    /\ pc = "boxed"
    /\ transformCalls = 1
    /\ width(bbox) # args.width
    /\ height(bbox) = args.height

\* ------------------------------------------------------------------------
\* Properties of _calculate_image_size (SpecSize)
\* ------------------------------------------------------------------------
IsPositive(x) == ~IsZero(x) /\ ~x.neg

\* floor(x)
Floor(x) ==
    IF x.neg THEN -(IntMag(x) + (IF HasFraction(x) THEN 1 ELSE 0)) ELSE IntMag(x)

\* x with its fraction dropped: floor(x) for x >= 0, -floor(-x) for x < 0
TowardZero(x) == IF x.neg THEN -Floor(FNeg(x)) ELSE Floor(x)

QuotientW == FDiv(width(bbox), client.resolution)
QuotientH == FDiv(height(bbox), client.resolution)

\* C6: for a box of positive width and height, when a raw dimension exceeds
\* 15000 the larger returned dimension is exactly 15000 and neither exceeds it.
C6_ClampedToMax ==
    (/\ pc = "size_output"
     /\ IsPositive(width(bbox)) /\ IsPositive(height(bbox))
     /\ (Floor(QuotientW) > MAX_IMAGE_SIZE \/ Floor(QuotientH) > MAX_IMAGE_SIZE)) =>
        /\ Larger(size[1], size[2]) = MAX_IMAGE_SIZE
        /\ size[1] <= MAX_IMAGE_SIZE
        /\ size[2] <= MAX_IMAGE_SIZE

\* C7: for a box of positive width and height both returned dimensions are
\* at least 1.
C7_PositiveSize ==
    (pc = "size_output" /\ IsPositive(width(bbox)) /\ IsPositive(height(bbox))) =>
        (size[1] >= 1 /\ size[2] >= 1)

\* C10 as stated: when neither raw dimension exceeds 15000 the result is
\* (floor(width / resolution), floor(height / resolution)), for malformed
\* boxes too.
C10_FloorOfQuotient ==
    (/\ pc = "size_output"
     /\ Floor(QuotientW) <= MAX_IMAGE_SIZE /\ Floor(QuotientH) <= MAX_IMAGE_SIZE) =>
        size = <<Floor(QuotientW), Floor(QuotientH)>>

\* C10 amended: when neither raw dimension exceeds 15000 the result is the
\* two quotients with their fractions dropped (rounded toward zero), with no
\* scaling; that is the floor for a quotient >= 0 and the ceiling for a
\* negative one.
C10_QuotientTowardZero ==
    (/\ pc = "size_output"
     /\ TowardZero(QuotientW) <= MAX_IMAGE_SIZE /\ TowardZero(QuotientH) <= MAX_IMAGE_SIZE) =>
        size = <<TowardZero(QuotientW), TowardZero(QuotientH)>>

\* C10 witness: a malformed box whose width quotient is negative with a
\* fraction, not clamped: the result is above the floor
C10_Witness ==
    /\ pc = "size_output"
    /\ QuotientW.neg /\ HasFraction(QuotientW)
    /\ TowardZero(QuotientH) <= MAX_IMAGE_SIZE
    /\ size[1] = Floor(QuotientW) + 1

====
